---- MODULE Spec2Model ----
(***************************************************************************)
(* A model of the bug tracker's data layer (database.js) and of its        *)
(* Express middleware (validId, validBody, validRole).                     *)
(*                                                                         *)
(* The store (MongoDB) is a set of documents per collection.  Every entity *)
(* operation is an async function: it runs from one await to the next      *)
(* without interruption, and other requests run in between.  A request is  *)
(* a process p with a program counter pc[p]; one action is one such run.   *)
(*                                                                         *)
(* Strings whose characters matter (emails, names, keywords) are sequences *)
(* of one-character strings, so that trim, toLowerCase and the regex       *)
(* search are computed and not assumed.                                    *)
(***************************************************************************)
EXTENDS Integers, Sequences, FiniteSets, TLC

VARIABLES
    Users,        \* the Users collection: a set of documents
    Bugs,         \* the Bugs collection: a set of documents
    _db,          \* database.js: let _db = null
    connections,  \* how many connections MongoClient.connect has established
    bsonLegacy,   \* the installed bson accepts a 12-character string as an id
    now,          \* the clock, in ticks: what new Date() reads
    pc,           \* per request: where its async function is suspended
    op,           \* per request: the operation called
    arg,          \* per request: its argument
    local,        \* per request: the function's local variables
    result,       \* per request: what the call returned or threw
    prev,         \* the call that completed last, when it was a registration
    mw,           \* the middleware a request is passing through, as configured
    mwpc,         \* "idle", "running" or "finished"
    incoming,     \* the request as it arrived
    req,          \* the request as the middleware leaves it
    res,          \* the response the middleware sent, if any
    nextCalls,    \* how often the middleware called next()
    cookie        \* the cookie set on the response by res.cookie, if any

storeVars == <<Users, Bugs, _db, connections, bsonLegacy, now>>
procVars == <<pc, op, arg, local, result, prev>>
mwVars == <<mw, mwpc, incoming, req, res, nextCalls, cookie>>

(***************************************************************************)
(* Bounds                                                                  *)
(***************************************************************************)
NumOids == 2      \* ObjectIds a document can have
NumProcs == 2     \* requests in flight at once
NumListDocs == 3  \* documents a listed collection can hold
MaxPage == 2      \* largest page number and page size asked for
TicksPerDay == 2  \* clock ticks in a day
MaxIdLen == 25    \* longest identifier string tried

Oids == 1..NumOids
Procs == 1..NumProcs

(***************************************************************************)
(* Strings                                                                 *)
(***************************************************************************)
ToLowerCaseChar(c) ==
    CASE c = "A" -> "a"
      [] c = "B" -> "b"
      [] OTHER -> c

\* String.prototype.toLowerCase
ToLowerCase(s) == [i \in DOMAIN s |-> ToLowerCaseChar(s[i])]

RECURSIVE TrimStart(_)
TrimStart(s) ==
    IF s # <<>> /\ Head(s) = " " THEN TrimStart(Tail(s)) ELSE s

RECURSIVE TrimEnd(_)
TrimEnd(s) ==
    IF s # <<>> /\ s[Len(s)] = " " THEN TrimEnd(SubSeq(s, 1, Len(s) - 1)) ELSE s

\* String.prototype.trim
Trim(s) == TrimEnd(TrimStart(s))

\* GetUserByEmail: email.trim().toLowerCase()
CleanEmail(email) == ToLowerCase(Trim(email))

(***************************************************************************)
(* Values: null, results and errors                                        *)
(***************************************************************************)
Null == [null |-> TRUE]
NoResult == [tag |-> "none"]
Value(v) == [tag |-> "value", value |-> v]
\* new Error(msg): the message is kept as the parts of the template literal
Throw(msg) == [tag |-> "throw", msg |-> msg]

\* the message of an error the MongoDB driver raises
StoreErrorMsg == "MongoNetworkError"

(***************************************************************************)
(* Identifiers.  An identifier argument is undefined or a string, known by *)
(* its length, by whether all its characters are hex digits, and by the    *)
(* ObjectId its bytes denote.                                              *)
(***************************************************************************)
IdString(n, h, o) == [kind |-> "string", len |-> n, hex |-> h, oid |-> o]
IdUndefined == [kind |-> "undefined", len |-> 0, hex |-> FALSE, oid |-> 0]
IdNumber == [kind |-> "number", len |-> 0, hex |-> FALSE, oid |-> 0]
\* an ObjectId, the store's identifier type
ObjectId(o) == [kind |-> "ObjectId", len |-> 0, hex |-> FALSE, oid |-> o]

\* bson's ObjectId.isValid
ObjectIdIsValid(id) ==
    \/ id.kind \in {"number", "ObjectId"}
    \/ /\ id.kind = "string"
       /\ \/ id.len = 24 /\ id.hex
          \/ id.len = 12 /\ bsonLegacy

\* the identifier arguments the entity operations are called with
IdArgs ==
    {IdString(24, TRUE, o) : o \in Oids}
        \cup {IdString(12, FALSE, 1), IdString(24, FALSE, 0), IdUndefined}

\* the identifier arguments the codec is tried on: every length up to
\* MaxIdLen, all hex digits or not
CodecIds ==
    {IdUndefined, IdNumber}
        \cup {IdString(n, h, IF n \in {12, 24} THEN 1 ELSE 0) :
                n \in 0..MaxIdLen, h \in BOOLEAN}

(***************************************************************************)
(* The Users collection                                                    *)
(***************************************************************************)
EmailPool == {<<"a">>, <<"A">>, <<" ", "a">>, <<"b">>}

UserDoc(o, e) ==
    [_id |-> o, email |-> e, password |-> "secret", givenName |-> <<"a">>,
     familyName |-> <<"b">>, role |-> "User", createdOn |-> 0]

UniqueIds(coll) == \A d1, d2 \in coll : d1._id = d2._id => d1 = d2

\* no two documents have emails that are equal ignoring case
EmailsDistinct(coll) ==
    \A d1, d2 \in coll :
        ToLowerCase(d1.email) = ToLowerCase(d2.email) => d1 = d2

\* the collections a run starts from
SeedCollections ==
    {c \in SUBSET {UserDoc(o, e) : o \in Oids, e \in EmailPool} :
        UniqueIds(c) /\ EmailsDistinct(c)}

\* collection.findOne(filter): the documents it may return
FindByEmail(email) == {d \in Users : d.email = email}
FindById(o) == {d \in Users : d._id = o}

\* { projection: { password: 0 } }
WithoutPassword(d) == [f \in DOMAIN d \ {"password"} |-> d[f]]

\* { $set: fields }
ApplySet(d, fields) ==
    [f \in DOMAIN d \cup DOMAIN fields |->
        IF f \in DOMAIN fields THEN fields[f] ELSE d[f]]

\* collection.updateOne({ _id }, { $set: fields }): no upsert
UpdateOne(coll, o, fields) ==
    {IF d._id = o THEN ApplySet(d, fields) ELSE d : d \in coll}

\* collection.deleteOne({ _id })
DeleteOne(coll, o) == {d \in coll : d._id # o}

(***************************************************************************)
(* Requests                                                                *)
(***************************************************************************)
\* local variables of a call: db is the handle connectToDatabase returned
\* (0: none yet), log the store interactions of the call so far, in order,
\* existingUser what RegisterUser's findOne returned, users what GetAllUsers'
\* aggregate returned
NoLocal == [db |-> 0, log |-> <<>>, existingUser |-> Null, users |-> <<>>]

NoCall == [op |-> "none", arg |-> Null, result |-> NoResult]

\* RegisterUser's argument: the validated request body
NewUser(e) ==
    [email |-> e, password |-> "secret", givenName |-> <<"a">>,
     familyName |-> <<"b">>, role |-> "User"]

\* UpdateUser's argument: { _id, ...updateFields }
UpdateArgs ==
    {[_id |-> i, fields |-> [email |-> e]] : i \in IdArgs, e \in EmailPool}
        \cup {[_id |-> i, fields |-> [role |-> "Admin"]] : i \in IdArgs}

\* the arguments each operation is called with
ArgsOf(o) ==
    CASE o = "RegisterUser" -> {NewUser(e) : e \in EmailPool}
      [] o = "GetUserByEmail" -> EmailPool
      [] o = "GetUserById" -> IdArgs
      [] o = "UpdateUser" -> UpdateArgs
      [] o = "DeleteUser" -> IdArgs
      [] o = "newId" -> CodecIds
      [] o = "UpdateBug" ->
            {[bugId |-> i, fields |-> [title |-> <<"b">>]] : i \in IdArgs \cup {IdNumber}}
      [] o = "CloseBug" ->
            {[bugId |-> i, fields |-> [closed |-> TRUE]] : i \in IdArgs \cup {IdNumber}}
      [] OTHER -> {Null}

ChecksAfterConnect(o) == FALSE

\* the operations that validate their argument before they connect
ChecksFirst(o) == o \in {"GetUserById", "newId"}

\* a request arrives and the operation is called
Call(p, o, a) ==
    /\ pc[p] = "idle"
    /\ pc' = [pc EXCEPT ![p] = IF ChecksFirst(o) THEN "called" ELSE "connect"]
    /\ op' = [op EXCEPT ![p] = o]
    /\ arg' = [arg EXCEPT ![p] = a]
    /\ local' = [local EXCEPT ![p] = NoLocal]
    /\ result' = [result EXCEPT ![p] = NoResult]
    /\ UNCHANGED <<storeVars, prev, mwVars>>

\* the caller takes the result; the request is over
Return(p) ==
    /\ pc[p] = "done"
    /\ prev' = IF op[p] = "RegisterUser"
                 THEN [op |-> op[p], arg |-> arg[p], result |-> result[p]]
                 ELSE NoCall
    /\ pc' = [pc EXCEPT ![p] = "idle"]
    /\ op' = [op EXCEPT ![p] = "none"]
    /\ arg' = [arg EXCEPT ![p] = Null]
    /\ local' = [local EXCEPT ![p] = NoLocal]
    /\ result' = [result EXCEPT ![p] = NoResult]
    /\ UNCHANGED <<storeVars, mwVars>>

\* the call of p ends with r
Finish(p, r) ==
    /\ pc' = [pc EXCEPT ![p] = "done"]
    /\ result' = [result EXCEPT ![p] = r]

Logged(p, what) == [local EXCEPT ![p].log = Append(@, what)]

(***************************************************************************)
(* connectToDatabase                                                       *)
(***************************************************************************)
\* if (!_db) { ... await MongoClient.connect(...) ... } return _db;
ConnectToDatabase(p) ==
    /\ pc[p] = "connect"
    /\ IF _db # 0
         THEN /\ local' = [Logged(p, "connectToDatabase") EXCEPT ![p].db = _db]
              /\ pc' = [pc EXCEPT ![p] = "body"]
         ELSE /\ local' = Logged(p, "connectToDatabase")
              /\ pc' = [pc EXCEPT ![p] = "connecting"]
    /\ UNCHANGED <<storeVars, op, arg, result, prev, mwVars>>

\* MongoClient.connect resolves: _db = client.db(dbName); return _db;
MongoConnectOk(p) ==
    /\ pc[p] = "connecting"
    /\ connections' = connections + 1
    /\ _db' = connections + 1
    /\ local' = [local EXCEPT ![p].db = connections + 1]
    /\ pc' = [pc EXCEPT ![p] = "body"]
    /\ UNCHANGED <<Users, Bugs, bsonLegacy, now, op, arg, result, prev, mwVars>>

\* the operations that call connectToDatabase inside their try block
ConnectsInTry(o) == o \in {"GetAllUsers"}

\* what the caller of o sees when connectToDatabase throws err
ConnectError(o) ==
    CASE o = "GetAllUsers" -> Throw(<<"Failed to get users: ", StoreErrorMsg>>)
      [] OTHER -> Throw(<<StoreErrorMsg>>)

\* MongoClient.connect rejects: connectToDatabase rethrows
MongoConnectFail(p) ==
    /\ pc[p] = "connecting"
    /\ Finish(p, ConnectError(op[p]))
    /\ UNCHANGED <<storeVars, op, arg, local, prev, mwVars>>

\* connectToDatabase called on its own: the handle is the result
ConnectReturn(p) ==
    /\ pc[p] = "body"
    /\ op[p] = "connectToDatabase"
    /\ Finish(p, Value(local[p].db))
    /\ UNCHANGED <<storeVars, op, arg, local, prev, mwVars>>

\* ping: await db.command({ ping: 1 })
Ping(p) ==
    /\ pc[p] = "body"
    /\ op[p] = "ping"
    /\ local' = Logged(p, "command")
    /\ Finish(p, Value(Null))
    /\ UNCHANGED <<storeVars, op, arg, prev, mwVars>>

(***************************************************************************)
(* User operations                                                         *)
(***************************************************************************)
\* GetUserById: if (!ObjectId.isValid(id)) throw, before connectToDatabase
GetUserByIdCheck(p) ==
    /\ pc[p] = "called"
    /\ op[p] = "GetUserById"
    /\ IF ObjectIdIsValid(arg[p])
         THEN pc' = [pc EXCEPT ![p] = "connect"] /\ UNCHANGED result
         ELSE Finish(p, Throw(<<"Invalid ObjectId format">>))
    /\ UNCHANGED <<storeVars, op, arg, local, prev, mwVars>>

\* GetUserById: findOne({ _id }, { projection: { password: 0 } }); user || null
GetUserByIdFind(p) ==
    /\ pc[p] = "body"
    /\ op[p] = "GetUserById"
    /\ local' = Logged(p, "findOne")
    /\ \/ \E d \in FindById(arg[p].oid) : Finish(p, Value(WithoutPassword(d)))
       \/ FindById(arg[p].oid) = {} /\ Finish(p, Value(Null))
    /\ UNCHANGED <<storeVars, op, arg, prev, mwVars>>

\* GetUserByEmail: findOne({ email: cleanEmail })
GetUserByEmailFind(p) ==
    /\ pc[p] = "body"
    /\ op[p] = "GetUserByEmail"
    /\ local' = Logged(p, "findOne")
    /\ \/ \E d \in FindByEmail(CleanEmail(arg[p])) : Finish(p, Value(d))
       \/ FindByEmail(CleanEmail(arg[p])) = {} /\ Finish(p, Value(Null))
    /\ UNCHANGED <<storeVars, op, arg, prev, mwVars>>

\* RegisterUser: existingUser = await findOne({ email: user.email })
RegisterUserFindOne(p) ==
    /\ pc[p] = "body"
    /\ op[p] = "RegisterUser"
    /\ \/ \E d \in FindByEmail(arg[p].email) :
             local' = [Logged(p, "findOne") EXCEPT ![p].existingUser = d]
       \/ /\ FindByEmail(arg[p].email) = {}
          /\ local' = [Logged(p, "findOne") EXCEPT ![p].existingUser = Null]
    /\ pc' = [pc EXCEPT ![p] = "checked"]
    /\ UNCHANGED <<storeVars, op, arg, result, prev, mwVars>>

\* what RegisterUser ends with once findOne has returned existingUser: the
\* duplicate is rejected; otherwise newUser is built and logged, and
\* "return resourceLimits" reads an identifier that is declared nowhere, which
\* is a ReferenceError; the catch block rethrows either. No insert is made.
RegisterUserOutcome(existingUser) ==
    IF existingUser # Null
      THEN Throw(<<"Failed to register user: ", "User with this email already exists">>)
      ELSE Throw(<<"Failed to register user: ", "resourceLimits is not defined">>)

\* RegisterUser after the existence check
RegisterUserFinish(p) ==
    /\ pc[p] = "checked"
    /\ op[p] = "RegisterUser"
    /\ Finish(p, RegisterUserOutcome(local[p].existingUser))
    /\ UNCHANGED <<storeVars, op, arg, local, prev, mwVars>>

\* UpdateUser: isValid(_id) or throw; updateOne({ _id }, { $set: updateFields })
UpdateUserBody(p) ==
    /\ pc[p] = "body"
    /\ op[p] = "UpdateUser"
    /\ IF ObjectIdIsValid(arg[p]._id)
         THEN /\ Users' = UpdateOne(Users, arg[p]._id.oid, arg[p].fields)
              /\ local' = Logged(p, "updateOne")
              /\ Finish(p, Value([matchedCount |->
                                    Cardinality(FindById(arg[p]._id.oid))]))
         ELSE /\ Finish(p, Throw(<<"Failed to update user: ", "Invalid ObjectId format">>))
              /\ UNCHANGED <<Users, local>>
    /\ UNCHANGED <<Bugs, _db, connections, bsonLegacy, now, op, arg, prev, mwVars>>

\* DeleteUser: isValid(id) or throw; deleteOne({ _id })
DeleteUserBody(p) ==
    /\ pc[p] = "body"
    /\ op[p] = "DeleteUser"
    /\ IF ObjectIdIsValid(arg[p])
         THEN /\ Users' = DeleteOne(Users, arg[p].oid)
              /\ local' = Logged(p, "deleteOne")
              /\ Finish(p, Value([deletedCount |->
                                    Cardinality(FindById(arg[p].oid))]))
         ELSE /\ Finish(p, Throw(<<"Error deleting user">>))
              /\ UNCHANGED <<Users, local>>
    /\ UNCHANGED <<Bugs, _db, connections, bsonLegacy, now, op, arg, prev, mwVars>>

(***************************************************************************)
(* Bug operations                                                          *)
(***************************************************************************)
BugDoc(o) == [_id |-> o, title |-> <<"a">>, closed |-> FALSE, createdOn |-> 0]

\* the message of the error new ObjectId(x) throws
BsonErrorMsg == "BSONError"

\* new ObjectId(x) does not throw: undefined and a number give a generated
\* identifier, a string is parsed
ObjectIdAccepts(x) == x.kind = "undefined" \/ ObjectIdIsValid(x)

\* the identifier new ObjectId(x) gives
NewObjectId(x) ==
    IF x.kind \in {"undefined", "number"} THEN ObjectId(NumOids + 1) ELSE ObjectId(x.oid)

\* UpdateBug: updateOne({ _id: new ObjectId(bugId) }, { $set: update }), with
\* no isValid test before it: new ObjectId decides whether the call goes on
UpdateBugBody(p) ==
    /\ pc[p] = "body"
    /\ op[p] = "UpdateBug"
    /\ IF ObjectIdAccepts(arg[p].bugId)
         THEN LET o == NewObjectId(arg[p].bugId).oid
              IN /\ Bugs' = UpdateOne(Bugs, o, arg[p].fields)
                 /\ local' = Logged(p, "updateOne")
                 /\ Finish(p, Value([matchedCount |->
                                       Cardinality({d \in Bugs : d._id = o})]))
         ELSE /\ Finish(p, Throw(<<"Failed to update bug: ", BsonErrorMsg>>))
              /\ UNCHANGED <<Bugs, local>>
    /\ UNCHANGED <<Users, _db, connections, bsonLegacy, now, op, arg, prev, mwVars>>

\* CloseBug: isValid(bugId) or throw; updateOne({ _id }, { $set: updatedFields })
CloseBugBody(p) ==
    /\ pc[p] = "body"
    /\ op[p] = "CloseBug"
    /\ IF ObjectIdIsValid(arg[p].bugId)
         THEN LET o == NewObjectId(arg[p].bugId).oid
              IN /\ Bugs' = UpdateOne(Bugs, o, arg[p].fields)
                 /\ local' = Logged(p, "updateOne")
                 /\ Finish(p, Value([matchedCount |->
                                       Cardinality({d \in Bugs : d._id = o})]))
         ELSE /\ Finish(p, Throw(<<"Failed to close bug: ", "Invalid bug ID format">>))
              /\ UNCHANGED <<Bugs, local>>
    /\ UNCHANGED <<Users, _db, connections, bsonLegacy, now, op, arg, prev, mwVars>>

(***************************************************************************)
(* JavaScript values of the listing parameters: undefined, a number, the   *)
(* decimal string of a number, or a string that starts with no digit.      *)
(***************************************************************************)
JsUndefined == [t |-> "undefined", n |-> 0]
JsNumber(n) == [t |-> "number", n |-> n]
JsNumeric(n) == [t |-> "string", n |-> n]
JsWord == [t |-> "word", n |-> 0]
NaN == [t |-> "NaN", n |-> 0]

\* a default parameter value: pageSize = 5, pageNumber = 1
DefaultTo(x, d) == IF x.t = "undefined" THEN JsNumber(d) ELSE x

\* parseInt(x)
ParseInt(x) == IF x.t \in {"number", "string"} THEN JsNumber(x.n) ELSE NaN

\* x || d, for a number x
OrElse(x, d) == IF x.t = "NaN" \/ x.n = 0 THEN d ELSE x.n

DefaultPageSize == 5
DefaultPageNumber == 1

\* pageNumber = parseInt(pageNumber) || 1
PageNumberOf(q) == OrElse(ParseInt(DefaultTo(q.pageNumber, DefaultPageNumber)), DefaultPageNumber)

\* pageSize = parseInt(pageSize) || 5
PageSizeOf(q) == OrElse(ParseInt(DefaultTo(q.pageSize, DefaultPageSize)), DefaultPageSize)

SkipWholePages(q) == PageNumberOf(q) * PageSizeOf(q)

\* const skip = (pageNumber - 1) * pageSize
SkipOf(q) == (PageNumberOf(q) - 1) * PageSizeOf(q)

\* const limit = pageSize
LimitOf(q) == PageSizeOf(q)

(***************************************************************************)
(* getSortOptions: the sort keys, in order, each with its direction        *)
(***************************************************************************)
getSortOptionsDefaultOnly(sortBy, type) == <<<<"givenName", 1>>>>

getSortOptions(sortBy, type) ==
    IF type = "user" THEN
        CASE sortBy = "givenName" ->
                <<<<"givenName", 1>>, <<"familyName", 1>>, <<"createdOn", 1>>>>
          [] sortBy = "familyName" ->
                <<<<"familyName", 1>>, <<"givenName", 1>>, <<"createdOn", 1>>>>
          [] sortBy = "role" ->
                <<<<"role", 1>>, <<"givenName", 1>>, <<"familyName", 1>>, <<"createdOn", 1>>>>
          [] sortBy = "newest" -> <<<<"createdOn", -1>>>>
          [] sortBy = "oldest" -> <<<<"createdOn", 1>>>>
          [] OTHER -> <<<<"givenName", 1>>>>
    ELSE IF type = "bug" THEN
        CASE sortBy = "title" -> <<<<"title", 1>>, <<"createdOn", -1>>>>
          [] sortBy = "classification" -> <<<<"classification", 1>>, <<"createdOn", -1>>>>
          [] sortBy = "assignedToName" -> <<<<"assignedToName", 1>>, <<"createdOn", -1>>>>
          [] sortBy = "createdByName" -> <<<<"createdByName", 1>>, <<"createdOn", -1>>>>
          [] sortBy = "newest" -> <<<<"createdOn", -1>>>>
          [] sortBy = "oldest" -> <<<<"createdOn", 1>>>>
          [] OTHER -> <<<<"createdOn", -1>>>>
    ELSE <<>>

(***************************************************************************)
(* The store's comparison of field values                                  *)
(***************************************************************************)
\* the code unit of a character
CharCode(c) ==
    CASE c = " " -> 32
      [] c = "A" -> 65
      [] c = "B" -> 66
      [] c = "a" -> 97
      [] c = "b" -> 98
      [] c = "c" -> 99
      [] OTHER -> 0

\* strings compare by code unit, a prefix before its extensions
RECURSIVE CompareText(_, _)
CompareText(s, t) ==
    IF s = <<>> /\ t = <<>> THEN 0
    ELSE IF s = <<>> THEN -1
    ELSE IF t = <<>> THEN 1
    ELSE IF CharCode(Head(s)) < CharCode(Head(t)) THEN -1
    ELSE IF CharCode(Head(s)) > CharCode(Head(t)) THEN 1
    ELSE CompareText(Tail(s), Tail(t))

\* the place of a role name among the role names, in string order
RoleRank(r) ==
    CASE r = "Admin" -> 1
      [] r = "Business Analyst" -> 2
      [] r = "Developer" -> 3
      [] r = "Product Manager" -> 4
      [] r = "Quality Analyst" -> 5
      [] r = "Technical Manager" -> 6
      [] r = "User" -> 7
      [] OTHER -> 0

CompareInt(a, b) == IF a < b THEN -1 ELSE IF a > b THEN 1 ELSE 0

CompareField(d1, d2, f) ==
    CASE f \in {"givenName", "familyName", "email"} -> CompareText(d1[f], d2[f])
      [] f = "role" -> CompareInt(RoleRank(d1[f]), RoleRank(d2[f]))
      [] OTHER -> CompareInt(d1[f], d2[f])

\* { $sort: sortOptions }: the first key that tells the documents apart decides
RECURSIVE CompareDocs(_, _, _)
CompareDocs(d1, d2, sortOptions) ==
    IF sortOptions = <<>> THEN 0
    ELSE LET c == CompareField(d1, d2, Head(sortOptions)[1]) * Head(sortOptions)[2]
         IN IF c # 0 THEN c ELSE CompareDocs(d1, d2, Tail(sortOptions))

\* the orders the $sort stage can give a set of documents: the order of
\* documents the keys do not tell apart is not determined
SortStage(docs, sortOptions) ==
    LET matched == docs
        keys == sortOptions
        n == Cardinality(matched)
    IN {s \in [1..n -> matched] :
            \A i, j \in 1..n :
                i < j => s[i] # s[j] /\ CompareDocs(s[i], s[j], keys) <= 0}

\* { $skip: n }
SkipStage(s, n) == SubSeq(s, n + 1, Len(s))

\* { $limit: n }
LimitStage(s, n) == SubSeq(s, 1, IF n < Len(s) THEN n ELSE Len(s))

(***************************************************************************)
(* GetAllUsers                                                             *)
(***************************************************************************)
\* today.setHours(0, 0, 0, 0)
Midnight(t) == t - (t % TicksPerDay)

\* d.setDate(d.getDate() - days)
DaysBefore(t, days) == t - days * TicksPerDay

\* typeof x === 'number' && x > 0
IsPositiveNumber(x) == x.t = "number" /\ x.n > 0

\* { $regex: keywords, $options: 'i' }: keywords occurs in text, ignoring case
RegexI(text, keywords) ==
    \E i \in 1..(Len(text) - Len(keywords) + 1) :
        ToLowerCase(SubSeq(text, i, i + Len(keywords) - 1)) = ToLowerCase(keywords)

CreatedOnFilterByName(q, clock) ==
    [k \in (IF IsPositiveNumber(q.minAge) THEN {"$gte"} ELSE {})
             \cup (IF IsPositiveNumber(q.maxAge) THEN {"$lte"} ELSE {}) |->
        IF k = "$gte" THEN DaysBefore(Midnight(clock), q.minAge.n)
                      ELSE DaysBefore(Midnight(clock), q.maxAge.n)]

\* createdOnFilter: $lte from minAge, $gte from maxAge, each only when the
\* value is a number > 0
CreatedOnFilter(q, clock) ==
    [k \in (IF IsPositiveNumber(q.minAge) THEN {"$lte"} ELSE {})
             \cup (IF IsPositiveNumber(q.maxAge) THEN {"$gte"} ELSE {}) |->
        IF k = "$lte" THEN DaysBefore(Midnight(clock), q.minAge.n)
                      ELSE DaysBefore(Midnight(clock), q.maxAge.n)]

\* the $match filter GetAllUsers builds; an absent keywords or role is the
\* empty string, which is as falsy as undefined; match.createdOn is set only
\* when createdOnFilter has a key
Matches(d, q, clock) ==
    /\ q.keywords # <<>> =>
          \/ RegexI(d.givenName, q.keywords)
          \/ RegexI(d.familyName, q.keywords)
          \/ RegexI(d.email, q.keywords)
    /\ q.role # "" => d.role = q.role
    /\ \A k \in DOMAIN CreatedOnFilter(q, clock) :
          IF k = "$lte" THEN d.createdOn <= CreatedOnFilter(q, clock)[k]
                        ELSE d.createdOn >= CreatedOnFilter(q, clock)[k]

MatchStage(coll, q, clock) == {d \in coll : Matches(d, q, clock)}

\* Math.ceil(a / b), for a >= 0 and b > 0
Ceil(a, b) == (a + b - 1) \div b

\* the store refuses a negative $skip and a $limit that is not positive
PipelineOk(q) == SkipOf(q) >= 0 /\ LimitOf(q) > 0

AggregateErrorMsg == "MongoServerError"

\* the page the pipeline [$match, $sort, $skip, $limit] can return
Page(s, q) == LimitStage(SkipStage(s, SkipOf(q)), LimitOf(q))

\* GetAllUsers: users = await aggregate(pipeline).toArray()
GetAllUsersAggregate(p) ==
    /\ pc[p] = "body"
    /\ op[p] = "GetAllUsers"
    /\ IF PipelineOk(arg[p])
         THEN /\ \E s \in SortStage(MatchStage(Users, arg[p], now),
                                    getSortOptions(arg[p].sortBy, "user")) :
                    local' = [Logged(p, "aggregate") EXCEPT
                                 ![p].users = Page(s, arg[p])]
              /\ pc' = [pc EXCEPT ![p] = "counting"]
              /\ UNCHANGED result
         ELSE /\ Finish(p, Throw(<<"Failed to get users: ", AggregateErrorMsg>>))
              /\ local' = Logged(p, "aggregate")
    /\ UNCHANGED <<storeVars, op, arg, prev, mwVars>>

\* GetAllUsers: totalUsers = await countDocuments(match); the result
GetAllUsersCount(p) ==
    /\ pc[p] = "counting"
    /\ op[p] = "GetAllUsers"
    /\ local' = Logged(p, "countDocuments")
    /\ LET totalUsers == Cardinality(MatchStage(Users, arg[p], now))
       IN Finish(p, Value([users |-> local[p].users,
                           totalUsers |-> totalUsers,
                           totalPages |-> Ceil(totalUsers, PageSizeOf(arg[p])),
                           pageNumber |-> PageNumberOf(arg[p]),
                           pageSize |-> PageSizeOf(arg[p])]))
    /\ UNCHANGED <<storeVars, op, arg, prev, mwVars>>

(***************************************************************************)
(* The identifier codec: newId                                             *)
(***************************************************************************)
\* !str
Falsy(id) == id.kind = "undefined" \/ (id.kind = "string" /\ id.len = 0)

\* newId: if (!str || typeof str !== 'string' || !ObjectId.isValid(str)) throw
NewIdOutcome(str) ==
    IF Falsy(str) \/ str.kind # "string" \/ ~ObjectIdIsValid(str)
      THEN Throw(<<"Invalid ObjectId string">>)
      ELSE Value(ObjectId(str.oid))

NewId(p) ==
    /\ pc[p] = "called"
    /\ op[p] = "newId"
    /\ Finish(p, NewIdOutcome(arg[p]))
    /\ UNCHANGED <<storeVars, op, arg, local, prev, mwVars>>

(***************************************************************************)
(* Middleware.  A request is [param, body, userRole]: the route parameter  *)
(* validId is configured for, the body, and req.userRole ("" when the      *)
(* request carries none).  A response is [status, json]; status 0: none.   *)
(***************************************************************************)
NoResponse == [status |-> 0, json |-> Null]
NoBody == [k \in {} |-> "valid"]
NoRequest == [param |-> IdUndefined, body |-> NoBody, userRole |-> ""]
NoMiddleware == [name |-> "none", schema |-> <<>>, requiredRoles |-> {}]

IdleMiddleware ==
    /\ mw = NoMiddleware
    /\ mwpc = "idle"
    /\ incoming = NoRequest
    /\ req = NoRequest
    /\ res = NoResponse
    /\ nextCalls = 0
    /\ cookie = Null

\* a request reaches the middleware m
Arrive(m, r) ==
    /\ mwpc = "idle"
    /\ pc[1] = "idle"
    /\ mw' = m
    /\ mwpc' = "running"
    /\ incoming' = r
    /\ req' = r
    /\ res' = NoResponse
    /\ nextCalls' = 0
    /\ cookie' = Null
    /\ UNCHANGED <<storeVars, procVars>>

\* the response has gone out, or the next handler has run: the request is
\* over. A request that got neither stays open.
Leave ==
    /\ mwpc = "finished"
    /\ res # NoResponse \/ nextCalls > 0
    /\ mw' = NoMiddleware
    /\ mwpc' = "idle"
    /\ incoming' = NoRequest
    /\ req' = NoRequest
    /\ res' = NoResponse
    /\ nextCalls' = 0
    /\ cookie' = Null
    /\ UNCHANGED <<storeVars, procVars>>

\* res.status(code).json(payload)
Respond(code, payload) == res' = [status |-> code, json |-> payload]

\* validId: try { req.params[paramName] = new ObjectId(...); next(); }
\*          catch (err) { return res.status(400).json(...) }
ValidId ==
    /\ mwpc = "running"
    /\ mw.name = "validId"
    /\ IF ObjectIdAccepts(req.param)
         THEN /\ req' = [req EXCEPT !.param = NewObjectId(req.param)]
              /\ nextCalls' = nextCalls + 1
              /\ UNCHANGED res
         ELSE /\ Respond(400, [error |-> "is not a valid ObjectId"])
              /\ UNCHANGED <<req, nextCalls>>
    /\ mwpc' = "finished"
    /\ UNCHANGED <<storeVars, procVars, mw, incoming, cookie>>

(***************************************************************************)
(* Joi schemas.  A body maps its keys to what the value is like: "valid",  *)
(* "padded" (valid but for white space around it), "invalid" (it breaks    *)
(* the rule of the field) or "empty" (the empty string).  A field says     *)
(* what Joi does with a padded value ("trim", "keep", or "reject" when the *)
(* value must be one of a list), the error type of an invalid and of an    *)
(* empty value, and what its default is like ("" for none: the default of  *)
(* role, 'User', is one of its valid values).                              *)
(***************************************************************************)
SchemaField(k, required, padded, invalidType, emptyType, default) ==
    [key |-> k, required |-> required, padded |-> padded,
     invalidType |-> invalidType, emptyType |-> emptyType, default |-> default]

userSchema ==
    << SchemaField("email", TRUE, "trim", "string.email", "string.empty", ""),
       SchemaField("password", TRUE, "keep", "string.min", "string.empty", ""),
       SchemaField("givenName", TRUE, "trim", "string.min", "string.empty", ""),
       SchemaField("familyName", TRUE, "trim", "string.min", "string.empty", ""),
       SchemaField("role", FALSE, "reject", "any.only", "any.only", "valid") >>

loginSchema ==
    << SchemaField("email", TRUE, "trim", "string.email", "string.empty", ""),
       SchemaField("password", TRUE, "keep", "string.min", "string.empty", "") >>

SchemaKeys(schema) == {schema[i].key : i \in DOMAIN schema}

\* schema.validate(body, { abortEarly: false, stripUnknown: true })
AbortEarlyTrue == TRUE

AbortEarly == FALSE

StripUnknown == TRUE

\* one entry of error.details
Detail(k, type) ==
    [message |-> <<k, type>>, path |-> <<k>>, type |-> type,
     context |-> [key |-> k, label |-> k]]

\* the violations Joi finds in one field
FieldDetails(f, body) ==
    IF f.key \notin DOMAIN body
      THEN IF f.required THEN <<Detail(f.key, "any.required")>> ELSE <<>>
    ELSE IF body[f.key] = "empty" THEN <<Detail(f.key, f.emptyType)>>
    ELSE IF body[f.key] = "invalid" THEN <<Detail(f.key, f.invalidType)>>
    ELSE IF body[f.key] = "padded" /\ f.padded = "reject"
      THEN <<Detail(f.key, f.invalidType)>>
    ELSE <<>>

\* the violations of all fields, in the order of the schema
RECURSIVE AllDetails(_, _)
AllDetails(schema, body) ==
    IF schema = <<>> THEN <<>>
    ELSE FieldDetails(Head(schema), body) \o AllDetails(Tail(schema), body)

\* error.details: with abortEarly, Joi stops at the first violation
Details(schema, body) ==
    LET all == AllDetails(schema, body)
    IN IF AbortEarly /\ all # <<>> THEN <<Head(all)>> ELSE all

\* the keys of the validated value: unknown keys go, defaults come
ValueKeys(schema, body) ==
    {k \in DOMAIN body : ~StripUnknown \/ k \in SchemaKeys(schema)}
        \cup {schema[i].key : i \in {j \in DOMAIN schema : schema[j].default # ""}}

FieldOf(schema, k) == schema[CHOOSE i \in DOMAIN schema : schema[i].key = k]

\* the validated value: trimmed where the field says so, defaulted if absent
ValidatedValue(schema, body) ==
    [k \in ValueKeys(schema, body) |->
        IF k \notin DOMAIN body THEN FieldOf(schema, k).default
        ELSE IF k \in SchemaKeys(schema) /\ body[k] = "padded"
                /\ FieldOf(schema, k).padded = "trim" THEN "valid"
        ELSE body[k]]

\* const { error, value } = schema.validate(...)
JoiValidate(schema, body) ==
    [error |-> Details(schema, body), value |-> ValidatedValue(schema, body)]

\* error.details.map(err => ({ message, path, type }))
Messages(details) ==
    [i \in DOMAIN details |->
        [message |-> details[i].message, path |-> details[i].path,
         type |-> details[i].type]]

\* validBody: on error respond 400 with the messages; else req.body = value; next()
ValidBody ==
    /\ mwpc = "running"
    /\ mw.name = "validBody"
    /\ LET v == JoiValidate(mw.schema, req.body)
       IN IF v.error # <<>>
            THEN /\ Respond(400, [errors |-> Messages(v.error)])
                 /\ UNCHANGED <<req, nextCalls>>
            ELSE /\ req' = [req EXCEPT !.body = v.value]
                 /\ nextCalls' = nextCalls + 1
                 /\ UNCHANGED res
    /\ mwpc' = "finished"
    /\ UNCHANGED <<storeVars, procVars, mw, incoming, cookie>>

(***************************************************************************)
(* validRole                                                               *)
(***************************************************************************)
IncludesNot(requiredRoles, userRole) == userRole \notin requiredRoles

\* requiredRoles.includes(userRole)
Includes(requiredRoles, userRole) == userRole \in requiredRoles

\* validRole: 401 without a role, 403 with a role that is not required, else next()
ValidRole ==
    /\ mwpc = "running"
    /\ mw.name = "validRole"
    /\ IF req.userRole = ""
         THEN /\ Respond(401, [error |-> "Unauthorized: User role not found."])
              /\ UNCHANGED nextCalls
         ELSE IF ~Includes(mw.requiredRoles, req.userRole)
         THEN /\ Respond(403, [error |-> "Forbidden"])
              /\ UNCHANGED nextCalls
         ELSE /\ nextCalls' = nextCalls + 1
              /\ UNCHANGED res
    /\ mwpc' = "finished"
    /\ UNCHANGED <<storeVars, procVars, mw, incoming, req, cookie>>

(***************************************************************************)
(* Sequential use: one request at a time                                   *)
(***************************************************************************)
UserOps == {"RegisterUser", "GetUserByEmail", "GetUserById", "UpdateUser", "DeleteUser"}

vars == <<storeVars, procVars, mwVars>>

IdleProcs ==
    /\ pc = [p \in Procs |-> "idle"]
    /\ op = [p \in Procs |-> "none"]
    /\ arg = [p \in Procs |-> Null]
    /\ local = [p \in Procs |-> NoLocal]
    /\ result = [p \in Procs |-> NoResult]
    /\ prev = NoCall

\* the clock at the start of the last day, or a tick into it
Clocks == {NumListDocs * TicksPerDay, NumListDocs * TicksPerDay + 1}

Init ==
    /\ Users \in SeedCollections
    /\ Bugs = {}
    /\ _db = 0
    /\ connections = 0
    /\ bsonLegacy \in BOOLEAN
    /\ now = NumListDocs * TicksPerDay
    /\ IdleProcs
    /\ IdleMiddleware

SeqCall == pc[1] = "idle" /\ \E o \in UserOps : \E a \in ArgsOf(o) : Call(1, o, a)

Next ==
    \/ SeqCall
    \/ ConnectToDatabase(1)
    \/ MongoConnectOk(1)
    \/ MongoConnectFail(1)
    \/ GetUserByIdCheck(1)
    \/ GetUserByIdFind(1)
    \/ GetUserByEmailFind(1)
    \/ RegisterUserFindOne(1)
    \/ RegisterUserFinish(1)
    \/ UpdateUserBody(1)
    \/ DeleteUserBody(1)
    \/ Return(1)

Spec == Init /\ [][Next]_vars

(***************************************************************************)
(* Overlapping use: requests interleave at their awaits.  ping() is called *)
(* when database.js is loaded, so a first request can find it connecting.  *)
(***************************************************************************)
ConcOps == {"connectToDatabase", "ping", "RegisterUser"}

ConcCall ==
    \E p \in Procs :
        pc[p] = "idle" /\ \E o \in ConcOps : \E a \in ArgsOf(o) : Call(p, o, a)

ConcNext ==
    \/ ConcCall
    \/ \E p \in Procs : ConnectToDatabase(p)
    \/ \E p \in Procs : MongoConnectOk(p)
    \/ \E p \in Procs : MongoConnectFail(p)
    \/ \E p \in Procs : ConnectReturn(p)
    \/ \E p \in Procs : Ping(p)
    \/ \E p \in Procs : RegisterUserFindOne(p)
    \/ \E p \in Procs : RegisterUserFinish(p)
    \/ \E p \in Procs : Return(p)

SpecConc == Init /\ [][ConcNext]_vars

(***************************************************************************)
(* Listing: GetAllUsers over collections of documents that differ in name, *)
(* role and creation time                                                  *)
(***************************************************************************)
\* document k is created on day k, the odd ones a tick after midnight
ListDoc(k) ==
    [_id |-> k, email |-> [i \in 1..k |-> "a"], password |-> "secret",
     givenName |-> IF k % 2 = 1 THEN <<"a">> ELSE <<"b">>,
     familyName |-> <<"c">>,
     role |-> IF k = 1 THEN "Admin" ELSE "User",
     createdOn |-> k * TicksPerDay + (k % 2)]

ListCollections == SUBSET {ListDoc(k) : k \in 1..NumListDocs}

PageArgs ==
    {JsUndefined, JsWord, JsNumeric(MaxPage)} \cup {JsNumber(n) : n \in -1..MaxPage}

\* (minAge, maxAge) as asked for
AgeArgs ==
    {<<JsUndefined, JsUndefined>>, <<JsNumber(1), JsUndefined>>,
     <<JsUndefined, JsNumber(1)>>, <<JsNumber(1), JsNumber(2)>>,
     <<JsNumeric(1), JsNumber(0)>>}

\* GetAllUsers' argument: the query parameters of the request
Queries ==
    {[keywords |-> k, role |-> r, minAge |-> a[1], maxAge |-> a[2], sortBy |-> s,
      pageSize |-> ps, pageNumber |-> pn] :
        k \in {<<>>, <<"B">>}, r \in {"", "User"}, a \in AgeArgs,
        s \in {"", "givenName", "newest"}, ps \in PageArgs, pn \in PageArgs}

InitList ==
    /\ Users \in ListCollections
    /\ Bugs = {}
    /\ _db = 0
    /\ connections = 0
    /\ bsonLegacy = FALSE
    /\ now \in Clocks
    /\ IdleProcs
    /\ IdleMiddleware

ListCall == pc[1] = "idle" /\ \E q \in Queries : Call(1, "GetAllUsers", q)

ListNext ==
    \/ ListCall
    \/ ConnectToDatabase(1)
    \/ MongoConnectOk(1)
    \/ MongoConnectFail(1)
    \/ GetAllUsersAggregate(1)
    \/ GetAllUsersCount(1)
    \/ Return(1)

SpecList == InitList /\ [][ListNext]_vars

(***************************************************************************)
(* Requests through the middleware, and calls of the codec                 *)
(***************************************************************************)
BodyTags == {"valid", "padded", "invalid", "empty"}

\* the bodies a schema is tried on: any of its keys and a key it does not know
BodiesFor(schema) ==
    UNION {[K -> BodyTags] : K \in SUBSET (SchemaKeys(schema) \cup {"extra"})}

RoleNames == {"User", "Admin", "Developer"}

ValidIdArrives ==
    mwpc = "idle" /\ \E i \in CodecIds :
        i.kind # "number" /\
        Arrive([NoMiddleware EXCEPT !.name = "validId"], [NoRequest EXCEPT !.param = i])

ValidBodyArrives ==
    mwpc = "idle" /\ \E schema \in {userSchema, loginSchema} :
        \E b \in BodiesFor(schema) :
            Arrive([NoMiddleware EXCEPT !.name = "validBody", !.schema = schema],
                   [NoRequest EXCEPT !.body = b])

ValidRoleArrives ==
    mwpc = "idle" /\ \E required \in SUBSET RoleNames :
        \E r \in RoleNames \cup {""} :
            Arrive([NoMiddleware EXCEPT !.name = "validRole", !.requiredRoles = required],
                   [NoRequest EXCEPT !.userRole = r])

NewIdCall ==
    pc[1] = "idle" /\ mwpc = "idle" /\ \E i \in CodecIds : Call(1, "newId", i)

MwNext ==
    \/ ValidIdArrives
    \/ ValidBodyArrives
    \/ ValidRoleArrives
    \/ ValidId
    \/ ValidBody
    \/ ValidRole
    \/ Leave
    \/ NewIdCall
    \/ NewId(1)
    \/ Return(1)

InitMw ==
    /\ Users = {}
    /\ Bugs = {}
    /\ _db = 0
    /\ connections = 0
    /\ bsonLegacy \in BOOLEAN
    /\ now = NumListDocs * TicksPerDay
    /\ IdleProcs
    /\ IdleMiddleware

SpecMw == InitMw /\ [][MwNext]_vars

(***************************************************************************)
(* POST /login: validBody(loginSchema), then the handler.  A stored        *)
(* password is plain text or a bcrypt hash, which starts with $2b$.        *)
(***************************************************************************)
LoginPasswords == {"secret", "wrong!"}

\* bcrypt.hash(password, saltRounds)
BcryptHash(password) ==
    CASE password = "secret" -> "$2b$secret"
      [] password = "wrong!" -> "$2b$wrong!"
      [] OTHER -> "$2b$"

\* hash.startsWith('$2b$')
StartsWith2b(stored) == stored \in {BcryptHash(w) : w \in LoginPasswords} \cup {"$2b$"}

\* bcrypt.compare(password, hash)
BcryptCompare(password, hash) == hash = BcryptHash(password)

\* isPasswordValid: compares with the hash, or with the plain text
IsPasswordValid(user, password) ==
    IF StartsWith2b(user.password)
      THEN BcryptCompare(password, user.password)
      ELSE user.password = password

\* issueAuthToken: jwt.sign({ _id, email, role, permissions, name }, secret)
issueAuthToken(user) ==
    [_id |-> user._id, email |-> user.email, role |-> <<user.role>>,
     name |-> <<user.givenName, user.familyName>>, signed |-> TRUE]

\* issueAuthCookie: res.cookie('authToken', token, cookieOptions)
issueAuthCookie(token) ==
    [name |-> "authToken", token |-> token, httpOnly |-> TRUE, secure |-> TRUE]

\* LoginUser: findOne({ email }); return user
LoginUserFind(p) ==
    /\ pc[p] = "body"
    /\ op[p] = "LoginUser"
    /\ local' = Logged(p, "findOne")
    /\ \/ \E d \in FindByEmail(arg[p].email) : Finish(p, Value(d))
       \/ FindByEmail(arg[p].email) = {} /\ Finish(p, Value(Null))
    /\ UNCHANGED <<storeVars, op, arg, prev, mwVars>>

\* the handler starts: const { email, password } = req.body;
\* await LoginUser(email); the argument is kept under its name
LoginHandler ==
    /\ mwpc = "running"
    /\ mw.name = "login"
    /\ pc[1] = "idle"
    /\ mwpc' = "awaiting"
    /\ pc' = [pc EXCEPT ![1] = "connect"]
    /\ op' = [op EXCEPT ![1] = "LoginUser"]
    /\ arg' = [arg EXCEPT ![1] = [email |-> req.body.email]]
    /\ local' = [local EXCEPT ![1] = NoLocal]
    /\ result' = [result EXCEPT ![1] = NoResult]
    /\ UNCHANGED <<storeVars, prev, mw, incoming, req, res, nextCalls, cookie>>

\* line 59, "return.res.status(4010.json(...))", is not a statement of the
\* language: the status it would send is read as the 401 of line 50 or as the
\* 4010 that is written
MalformedStatus == {401, 4010}

\* the handler after LoginUser has settled. The try block has no catch, so an
\* error of LoginUser leaves the handler without a response; no user gives
\* 401; a wrong password reaches line 59; and with the right password the
\* try block, and the handler, end: no token is issued and nothing is sent.
LoginResume ==
    /\ mwpc = "awaiting"
    /\ mw.name = "login"
    /\ pc[1] = "done"
    /\ IF result[1].tag = "throw" THEN UNCHANGED res
       ELSE IF result[1].value = Null
         THEN Respond(401, [message |-> "Invalid email or password."])
       ELSE IF ~IsPasswordValid(result[1].value, req.body.password)
         THEN \E code \in MalformedStatus :
                 Respond(code, [message |-> "Invalid email or password."])
       ELSE UNCHANGED res
    /\ mwpc' = "finished"
    /\ pc' = [pc EXCEPT ![1] = "idle"]
    /\ op' = [op EXCEPT ![1] = "none"]
    /\ arg' = [arg EXCEPT ![1] = Null]
    /\ local' = [local EXCEPT ![1] = NoLocal]
    /\ result' = [result EXCEPT ![1] = NoResult]
    /\ UNCHANGED <<storeVars, prev, mw, incoming, req, nextCalls, cookie>>

LoginDoc(o, e, stored) == [UserDoc(o, e) EXCEPT !.password = stored]

\* a user with a plain-text password and one with a hashed password, or fewer
LoginCollections ==
    SUBSET {LoginDoc(1, <<"a">>, "secret"), LoginDoc(2, <<"b">>, BcryptHash("secret"))}

\* the bodies that pass loginSchema, as validBody leaves them
LoginBodies ==
    {[email |-> e, password |-> w] : e \in {<<"a">>, <<"b">>, <<"A">>}, w \in LoginPasswords}

LoginArrives ==
    mwpc = "idle" /\ \E b \in LoginBodies :
        Arrive([NoMiddleware EXCEPT !.name = "login", !.schema = loginSchema],
               [NoRequest EXCEPT !.body = b])

LoginNext ==
    \/ LoginArrives
    \/ LoginHandler
    \/ ConnectToDatabase(1)
    \/ MongoConnectOk(1)
    \/ MongoConnectFail(1)
    \/ LoginUserFind(1)
    \/ LoginResume
    \/ Leave

InitLogin ==
    /\ Users \in LoginCollections
    /\ Bugs = {}
    /\ _db = 0
    /\ connections = 0
    /\ bsonLegacy = FALSE
    /\ now = NumListDocs * TicksPerDay
    /\ IdleProcs
    /\ IdleMiddleware

\* the event loop runs every continuation that is ready, and the store
\* settles every call made to it; every step moves pc or mwpc
SpecLogin == InitLogin /\ [][LoginNext]_vars /\ WF_<<pc, mwpc>>(LoginNext)

(***************************************************************************)
(* Calls of getSortOptions, by two callers, whatever the collection holds  *)
(***************************************************************************)
\* the keywords of both tables, keywords of neither ("GivenName", "email"),
\* and "" for an absent keyword, which is as unmatched as undefined
SortKeywords ==
    {"givenName", "familyName", "role", "newest", "oldest", "title",
     "classification", "assignedToName", "createdByName", "GivenName", "email", ""}

SortArgs == {[sortBy |-> k, type |-> t] : k \in SortKeywords, t \in {"user", "bug"}}

SortCall ==
    \E p \in Procs :
        /\ pc[p] = "idle"
        /\ \E a \in SortArgs :
              /\ pc' = [pc EXCEPT ![p] = "called"]
              /\ op' = [op EXCEPT ![p] = "getSortOptions"]
              /\ arg' = [arg EXCEPT ![p] = a]
              /\ local' = [local EXCEPT ![p] = NoLocal]
              /\ result' = [result EXCEPT ![p] = NoResult]
              /\ UNCHANGED <<storeVars, prev, mwVars>>

\* the body of getSortOptions: it builds sort and returns it
GetSortOptions(p) ==
    /\ pc[p] = "called"
    /\ op[p] = "getSortOptions"
    /\ Finish(p, Value(getSortOptions(arg[p].sortBy, arg[p].type)))
    /\ UNCHANGED <<storeVars, op, arg, local, prev, mwVars>>

SortNext ==
    \/ SortCall
    \/ \E p \in Procs : GetSortOptions(p)
    \/ \E p \in Procs : Return(p)

InitSort ==
    /\ Users \in {{}, {UserDoc(1, <<"a">>)}}
    /\ Bugs = {}
    /\ _db = 0
    /\ connections = 0
    /\ bsonLegacy = FALSE
    /\ now \in Clocks
    /\ IdleProcs
    /\ IdleMiddleware

SpecSort == InitSort /\ [][SortNext]_vars

(***************************************************************************)
(* Listing while another request deletes: request 1 lists, request 2       *)
(* deletes, and their steps interleave at the awaits                       *)
(***************************************************************************)
\* listings of whole pages, without filters
PlainQueries ==
    {q \in Queries :
        /\ q.keywords = <<>> /\ q.role = "" /\ q.sortBy = "newest"
        /\ q.minAge = JsUndefined /\ q.maxAge = JsUndefined}

ListConcCall ==
    \/ pc[1] = "idle" /\ \E q \in PlainQueries : Call(1, "GetAllUsers", q)
    \/ pc[2] = "idle" /\ \E i \in ArgsOf("DeleteUser") : Call(2, "DeleteUser", i)

ListConcNext ==
    \/ ListConcCall
    \/ \E p \in Procs : ConnectToDatabase(p)
    \/ \E p \in Procs : MongoConnectOk(p)
    \/ \E p \in Procs : MongoConnectFail(p)
    \/ GetAllUsersAggregate(1)
    \/ GetAllUsersCount(1)
    \/ DeleteUserBody(2)
    \/ \E p \in Procs : Return(p)

SpecListConc == InitList /\ [][ListConcNext]_vars

(***************************************************************************)
(* Writes: the operations that change Users or Bugs, one call at a time    *)
(***************************************************************************)
WriteOps == {"RegisterUser", "UpdateUser", "DeleteUser", "UpdateBug", "CloseBug"}

\* no user, or one user, or two with different emails
WriteUsers ==
    {{}, {UserDoc(1, <<"a">>)}, {UserDoc(1, <<"a">>), UserDoc(2, <<"b">>)}}

\* the arguments of the writes; an update of a user changes the role
WriteArgsOf(o) ==
    IF o = "UpdateUser" THEN {a \in UpdateArgs : "role" \in DOMAIN a.fields}
    ELSE ArgsOf(o)

WriteCall == pc[1] = "idle" /\ \E o \in WriteOps : \E a \in WriteArgsOf(o) : Call(1, o, a)

WriteNext ==
    \/ WriteCall
    \/ ConnectToDatabase(1)
    \/ MongoConnectOk(1)
    \/ MongoConnectFail(1)
    \/ RegisterUserFindOne(1)
    \/ RegisterUserFinish(1)
    \/ UpdateUserBody(1)
    \/ DeleteUserBody(1)
    \/ UpdateBugBody(1)
    \/ CloseBugBody(1)
    \/ Return(1)

InitWrite ==
    /\ Users \in WriteUsers
    /\ Bugs \in SUBSET {BugDoc(o) : o \in Oids}
    /\ _db = 0
    /\ connections = 0
    /\ bsonLegacy \in BOOLEAN
    /\ now = NumListDocs * TicksPerDay
    /\ IdleProcs
    /\ IdleMiddleware

SpecWrite == InitWrite /\ [][WriteNext]_vars

(***************************************************************************)
(* Claims about the user operations                                        *)
(***************************************************************************)
DuplicateEmailMsg == "User with this email already exists"

IsDuplicateError(r) == r.tag = "throw" /\ r.msg[Len(r.msg)] = DuplicateEmailMsg
IsStoreError(r) == r.tag = "throw" /\ r.msg[Len(r.msg)] = StoreErrorMsg

\* the registration that completed last was accepted: the store answered
\* and no document had its email
PrevAccepted ==
    /\ prev.op = "RegisterUser"
    /\ ~IsDuplicateError(prev.result)
    /\ ~IsStoreError(prev.result)

\* C1: of two RegisterUser calls made one after the other with the same
\* trimmed, lowercased email, the first succeeds and the second is rejected
\* with the duplicate-email error.
C1_SecondRegistrationRejected ==
    ( /\ pc[1] = "done"
      /\ op[1] = "RegisterUser"
      /\ ~IsStoreError(result[1])
      /\ PrevAccepted
      /\ CleanEmail(prev.arg.email) = CleanEmail(arg[1].email) )
    => /\ prev.result.tag = "value"
       /\ IsDuplicateError(result[1])

\* C2: after RegisterUser(u) has accepted u, a following
\* GetUserByEmail(u.email) returns a document, not null, whose email is the
\* trimmed, lowercased form of u.email.
C2_RegisterThenGetByEmail ==
    ( /\ pc[1] = "done"
      /\ op[1] = "GetUserByEmail"
      /\ ~IsStoreError(result[1])
      /\ PrevAccepted
      /\ arg[1] = prev.arg.email )
    => /\ prev.result.tag = "value"
       /\ result[1].tag = "value"
       /\ result[1].value # Null
       /\ result[1].value.email = CleanEmail(arg[1])

\* C3: under sequential RegisterUser, UpdateUser and DeleteUser calls, starting
\* from pairwise distinct emails, no two Users documents ever have emails that
\* are equal ignoring case.
C3_EmailsUnique == EmailsDistinct(Users)

\* C4: at most one connection is ever established, and all connectToDatabase
\* calls that return give back the same handle, also when they overlap.
C4_OneConnectionHandle ==
    /\ connections <= 1
    /\ \A p, q \in Procs :
          (local[p].db # 0 /\ local[q].db # 0) => local[p].db = local[q].db

\* C5: when two RegisterUser calls with the same email overlap and both make
\* the existence check before either inserts (both find no document), neither
\* is rejected as a duplicate and two documents with that email are persisted.
C5_BothRegistrationsPersist ==
    \A p, q \in Procs :
        ( /\ p # q
          /\ pc[p] = "done" /\ pc[q] = "done"
          /\ op[p] = "RegisterUser" /\ op[q] = "RegisterUser"
          /\ arg[p].email = arg[q].email
          /\ local[p].log = <<"connectToDatabase", "findOne">>
          /\ local[q].log = <<"connectToDatabase", "findOne">>
          /\ local[p].existingUser = Null /\ local[q].existingUser = Null )
        => /\ ~IsDuplicateError(result[p]) /\ ~IsDuplicateError(result[q])
           /\ Cardinality(FindByEmail(arg[p].email)) = 2

IsPositivePage(x) == x.t \in {"number", "string"} /\ x.n > 0

\* positions first..last of s, as far as s reaches
Positions(s, first, last) ==
    [i \in 1..Cardinality({j \in first..last : j <= Len(s)}) |-> s[first - 1 + i]]

\* C6: for a positive pageSize p and a positive pageNumber n, and no other
\* request writing, GetAllUsers returns as users the documents at positions
\* (n-1)*p+1 .. n*p of the sorted matching set (at most p of them), totalUsers
\* is the size of the matching set and totalPages is ceil(totalUsers / p).
C6_PageOfSortedMatches ==
    ( /\ pc[1] = "done"
      /\ op[1] = "GetAllUsers"
      /\ IsPositivePage(arg[1].pageSize)
      /\ IsPositivePage(arg[1].pageNumber)
      /\ ~IsStoreError(result[1]) )
    => LET q == arg[1]
           p == q.pageSize.n
           n == q.pageNumber.n
           matching == MatchStage(Users, q, now)
           r == result[1].value
       IN /\ result[1].tag = "value"
          /\ r.totalUsers = Cardinality(matching)
          /\ r.totalPages * p >= r.totalUsers
          /\ (r.totalPages - 1) * p < r.totalUsers
          /\ Len(r.users) <= p
          /\ \E s \in SortStage(matching, getSortOptions(q.sortBy, "user")) :
                r.users = Positions(s, (n - 1) * p + 1, n * p)

\* the second page of size 1 of three matching documents was returned
C6_Witness ==
    /\ pc[1] = "done" /\ op[1] = "GetAllUsers"
    /\ arg[1].pageSize = JsNumber(1) /\ arg[1].pageNumber = JsNumeric(2)
    /\ arg[1].sortBy = "newest"
    /\ result[1].tag = "value"
    /\ result[1].value.totalUsers = 3
    /\ result[1].value.totalPages = 3
    /\ result[1].value.users = <<ListDoc(2)>>

(***************************************************************************)
(* Claims about the codec and the middleware                               *)
(***************************************************************************)
Is24Hex(id) == id.kind = "string" /\ id.len = 24 /\ id.hex

\* C7: newId and validId accept exactly the 24-character hex strings: such a
\* string yields an identifier (validId then calls next), and every other
\* input fails with the invalid-identifier error (validId: 400, next not
\* called).
C7_CodecAcceptsExactly24Hex ==
    /\ (pc[1] = "done" /\ op[1] = "newId")
          => IF Is24Hex(arg[1])
               THEN result[1].tag = "value" /\ result[1].value.kind = "ObjectId"
               ELSE result[1] = Throw(<<"Invalid ObjectId string">>)
    /\ (mwpc = "finished" /\ mw.name = "validId")
          => IF Is24Hex(incoming.param)
               THEN nextCalls = 1 /\ res = NoResponse /\ req.param.kind = "ObjectId"
               ELSE res.status = 400 /\ nextCalls = 0

\* what the schema's field f asks of the value v
Acceptable(f, v) == v = "valid" \/ (v = "padded" /\ f.padded # "reject")

\* the keys of the schema that body violates: absent though required, or
\* present with a value the field does not accept
ViolatedKeys(schema, body) ==
    {schema[i].key : i \in
        {j \in DOMAIN schema :
            IF schema[j].key \in DOMAIN body
              THEN ~Acceptable(schema[j], body[schema[j].key])
              ELSE schema[j].required}}

\* C9: through validBody(schema) exactly one of two things happens. A body
\* that violates the schema gets a 400 response whose errors hold one
\* {message, path, type} entry for every violation, the missing required
\* fields included, and next is not called. Otherwise req.body becomes the
\* sanitized value (unknown keys removed, defaults applied), no response is
\* sent and next is called once, with a body that passes the schema.
C9_ValidBodyRejectsOrSanitizes ==
    (mwpc = "finished" /\ mw.name = "validBody")
    => LET schema == mw.schema
           body == incoming.body
           bad == ViolatedKeys(schema, body)
       IN IF bad # {}
            THEN /\ res.status = 400
                 /\ nextCalls = 0
                 /\ Len(res.json.errors) = Cardinality(bad)
                 /\ {res.json.errors[i].path : i \in DOMAIN res.json.errors}
                        = {<<k>> : k \in bad}
                 /\ \A i \in DOMAIN res.json.errors :
                        DOMAIN res.json.errors[i] = {"message", "path", "type"}
            ELSE /\ res = NoResponse
                 /\ nextCalls = 1
                 /\ DOMAIN req.body \subseteq SchemaKeys(schema)
                 /\ DOMAIN body \cap SchemaKeys(schema) \subseteq DOMAIN req.body
                 /\ \A i \in DOMAIN schema :
                        schema[i].default # "" =>
                            /\ schema[i].key \in DOMAIN req.body
                            /\ schema[i].key \notin DOMAIN body =>
                                  req.body[schema[i].key] = schema[i].default
                 /\ ViolatedKeys(schema, req.body) = {}

\* a registration body without email, with a bad password and an unknown key
\* was answered 400 with the two violations
C9_Witness ==
    /\ mwpc = "finished" /\ mw.name = "validBody" /\ mw.schema = userSchema
    /\ DOMAIN incoming.body = {"password", "givenName", "familyName", "extra"}
    /\ incoming.body["password"] = "invalid"
    /\ res.status = 400
    /\ Len(res.json.errors) = 2
    /\ res.json.errors[1].path = <<"email">>
    /\ res.json.errors[1].type = "any.required"
    /\ nextCalls = 0

\* C10: through validRole(requiredRoles), a request without a role gets 401
\* and one whose role is not required gets 403, neither reaching next; next
\* is called, once, if and only if the role is present and required, and
\* then the middleware sends no response.
C10_ValidRoleGates ==
    (mwpc = "finished" /\ mw.name = "validRole")
    => /\ incoming.userRole = "" => res.status = 401 /\ nextCalls = 0
       /\ (incoming.userRole # "" /\ incoming.userRole \notin mw.requiredRoles)
            => res.status = 403 /\ nextCalls = 0
       /\ nextCalls = 1 <=>
            (incoming.userRole # "" /\ incoming.userRole \in mw.requiredRoles)
       /\ nextCalls = 1 => res = NoResponse
       /\ nextCalls <= 1

\* a user was refused what only an admin or a developer may do
C10_Witness ==
    /\ mwpc = "finished" /\ mw.name = "validRole"
    /\ incoming.userRole = "User"
    /\ mw.requiredRoles = {"Admin", "Developer"}
    /\ res.status = 403
    /\ nextCalls = 0

(***************************************************************************)
(* Claims about the login route                                            *)
(***************************************************************************)
\* the user the credentials of the request are those of
LoginMatches(body) ==
    {d \in Users : d.email = body.email /\ IsPasswordValid(d, body.password)}

\* the request has its response: 401 without matching credentials, and
\* otherwise a success that carries the authToken cookie issued for the user
LoginAnswered ==
    /\ mwpc = "finished"
    /\ IF LoginMatches(incoming.body) = {}
         THEN res.status = 401 /\ cookie = Null
         ELSE /\ res.status = 200
              /\ \E d \in LoginMatches(incoming.body) :
                    cookie = issueAuthCookie(issueAuthToken(d))

\* the store failed under LoginUser
LoginStoreFailed == pc[1] = "done" /\ op[1] = "LoginUser" /\ IsStoreError(result[1])

\* C11: every POST /login request whose body passes the login schema
\* eventually receives its response, whenever the store answers: 401 when no
\* user has the email or the password does not match the stored one, and
\* otherwise a success response with the signed authToken cookie issued for
\* that user.
C11_LoginAnswered ==
    (mw.name = "login" /\ mwpc = "running") ~> (LoginAnswered \/ LoginStoreFailed)

(***************************************************************************)
(* Claims about getSortOptions                                             *)
(***************************************************************************)
\* the documented table: keyword, type, and the (field, direction) list
SortTable ==
    { <<"givenName", "user", <<<<"givenName", 1>>, <<"familyName", 1>>, <<"createdOn", 1>>>>>>,
      <<"familyName", "user", <<<<"familyName", 1>>, <<"givenName", 1>>, <<"createdOn", 1>>>>>>,
      <<"role", "user",
        <<<<"role", 1>>, <<"givenName", 1>>, <<"familyName", 1>>, <<"createdOn", 1>>>>>>,
      <<"newest", "user", <<<<"createdOn", -1>>>>>>,
      <<"oldest", "user", <<<<"createdOn", 1>>>>>>,
      <<"title", "bug", <<<<"title", 1>>, <<"createdOn", -1>>>>>>,
      <<"classification", "bug", <<<<"classification", 1>>, <<"createdOn", -1>>>>>>,
      <<"assignedToName", "bug", <<<<"assignedToName", 1>>, <<"createdOn", -1>>>>>>,
      <<"createdByName", "bug", <<<<"createdByName", 1>>, <<"createdOn", -1>>>>>>,
      <<"newest", "bug", <<<<"createdOn", -1>>>>>>,
      <<"oldest", "bug", <<<<"createdOn", 1>>>>>> }

\* the fixed default of a type
SortDefault(type) ==
    IF type = "user" THEN <<<<"givenName", 1>>>> ELSE <<<<"createdOn", -1>>>>

\* C12: getSortOptions is a pure total lookup. For every keyword and type in
\* {'user', 'bug'} it returns the list of the documented table, and for a
\* keyword the table of the type does not have, or none, the default of the
\* type; two calls with equal inputs give equal results, and a call touches
\* neither the store nor the connection.
C12_SortOptionsLookup ==
    /\ \A p \in Procs :
          (pc[p] = "done" /\ op[p] = "getSortOptions") =>
             /\ result[p].tag = "value"
             /\ \A row \in SortTable :
                   (row[1] = arg[p].sortBy /\ row[2] = arg[p].type)
                      => result[p].value = row[3]
             /\ (\A row \in SortTable :
                    ~(row[1] = arg[p].sortBy /\ row[2] = arg[p].type))
                   => result[p].value = SortDefault(arg[p].type)
             /\ local[p].log = <<>>
    /\ \A p, q \in Procs :
          ( /\ pc[p] = "done" /\ pc[q] = "done"
            /\ op[p] = "getSortOptions" /\ op[q] = "getSortOptions"
            /\ arg[p] = arg[q] )
          => result[p] = result[q]
    /\ (\A p \in Procs : op[p] \in {"none", "getSortOptions"})
          => _db = 0 /\ connections = 0

\* ('title', 'bug') gave (title asc, createdOn desc) while a caller that gave
\* a keyword of the other table got the default of 'user'
C12_Witness ==
    /\ pc[1] = "done" /\ op[1] = "getSortOptions"
    /\ arg[1] = [sortBy |-> "title", type |-> "bug"]
    /\ result[1] = Value(<<<<"title", 1>>, <<"createdOn", -1>>>>)
    /\ pc[2] = "done" /\ op[2] = "getSortOptions"
    /\ arg[2] = [sortBy |-> "title", type |-> "user"]
    /\ result[2] = Value(<<<<"givenName", 1>>>>)

(***************************************************************************)
(* Claims about error translation                                          *)
(***************************************************************************)
\* the message each operation gives the errors it rethrows
OwnMessage(o) ==
    CASE o = "GetAllUsers" -> "Failed to get users: "
      [] o = "GetUserById" -> "Failed to get user by ID: "
      [] o = "GetUserByEmail" -> "Failed to get user by email: "
      [] o = "RegisterUser" -> "Failed to register user: "
      [] o = "LoginUser" -> "Failed to login user: "
      [] o = "UpdateUser" -> "Failed to update user: "
      [] o = "DeleteUser" -> "Error deleting user"
      [] OTHER -> ""

\* C13: whenever the store fails under an entity operation, the connection
\* attempt included, the operation does not return normally and does not
\* surface the store's own error: it throws an error that starts with the
\* operation's own message.
C13_FailuresTranslated ==
    ( /\ pc[1] = "done"
      /\ op[1] \in UserOps
      /\ result[1].tag = "throw"
      /\ result[1].msg[Len(result[1].msg)] = StoreErrorMsg )
    => /\ result[1] # Throw(<<StoreErrorMsg>>)
       /\ result[1].msg[1] = OwnMessage(op[1])

(***************************************************************************)
(* Claims about the pagination and the age filter of GetAllUsers           *)
(***************************************************************************)
\* the call of p has handed its pipeline to the store
Aggregated(p) ==
    op[p] = "GetAllUsers" /\ \E i \in DOMAIN local[p].log : local[p].log[i] = "aggregate"

\* C14: for every pageNumber and pageSize input (missing, zero, negative,
\* not numeric, or a numeric string) the pageNumber and pageSize GetAllUsers
\* uses and returns are integers >= 1, so the skip it passes to the store is
\* >= 0 and the limit >= 1; a missing or unparseable value falls back to
\* pageNumber 1 and pageSize 5.
C14_PaginationClamped ==
    Aggregated(1) =>
        LET q == arg[1]
        IN /\ PageNumberOf(q) >= 1
           /\ PageSizeOf(q) >= 1
           /\ SkipOf(q) >= 0
           /\ LimitOf(q) >= 1
           /\ q.pageNumber.t \in {"undefined", "word"} => PageNumberOf(q) = 1
           /\ q.pageSize.t \in {"undefined", "word"} => PageSizeOf(q) = 5
           /\ (pc[1] = "done" /\ result[1].tag = "value") =>
                 /\ result[1].value.pageNumber = PageNumberOf(q)
                 /\ result[1].value.pageSize = PageSizeOf(q)

\* the query without its age parameters
WithoutAges(q) == [q EXCEPT !.minAge = JsUndefined, !.maxAge = JsUndefined]

PageLength(total, p, n) ==
    IF total - (n - 1) * p < 0 THEN 0
    ELSE IF total - (n - 1) * p < p THEN total - (n - 1) * p
    ELSE p

\* C16: the result of one GetAllUsers call is consistent in itself also when
\* other requests write Users documents while it runs: users.length is at
\* most totalUsers and at most pageSize, and a returned page n <= totalPages
\* holds as many documents as the matching set counted by totalUsers has at
\* that page.
C16_ListingConsistent ==
    ( pc[1] = "done" /\ op[1] = "GetAllUsers" /\ result[1].tag = "value" )
    => LET r == result[1].value
       IN /\ Len(r.users) <= r.totalUsers
          /\ Len(r.users) <= r.pageSize
          /\ r.pageNumber <= r.totalPages =>
                Len(r.users) = PageLength(r.totalUsers, r.pageSize, r.pageNumber)

(***************************************************************************)
(* Claims about failed writes                                              *)
(***************************************************************************)
\* the identifier argument of the call of p, for the operations that take one
IdOf(p) ==
    CASE op[p] = "UpdateUser" -> arg[p]._id
      [] op[p] \in {"UpdateBug", "CloseBug"} -> arg[p].bugId
      [] OTHER -> arg[p]

\* the call of p is a write with an identifier that is malformed
MalformedWrite(p) ==
    /\ op[p] \in {"UpdateUser", "DeleteUser", "UpdateBug", "CloseBug"}
    /\ ~ObjectIdIsValid(IdOf(p))

\* the call of p is a registration whose email a document already has
DuplicateRegistration(p) ==
    op[p] = "RegisterUser" /\ pc[p] = "checked" /\ local[p].existingUser # Null

\* the call of p is an update with a well-formed identifier of no document
UpdateOfNone(p) ==
    /\ op[p] \in {"UpdateUser", "UpdateBug", "CloseBug"}
    /\ ObjectIdIsValid(IdOf(p))
    /\ \A d \in (IF op[p] = "UpdateUser" THEN Users ELSE Bugs) :
          d._id # NewObjectId(IdOf(p)).oid

\* C17: a write that fails leaves the collections as they were. UpdateUser,
\* DeleteUser, UpdateBug and CloseBug with a malformed identifier, and a
\* RegisterUser rejected for a duplicate email, throw and change no
\* collection; UpdateUser, UpdateBug and CloseBug with a well-formed
\* identifier that matches no document create no document.
C17_FailedWritesChangeNothing ==
    [][ /\ (MalformedWrite(1) \/ DuplicateRegistration(1)) =>
              /\ UNCHANGED <<Users, Bugs>>
              /\ pc'[1] = "done" => result'[1].tag = "throw"
        /\ UpdateOfNone(1) => UNCHANGED <<Users, Bugs>> ]_vars

====
